---- MODULE Spec2Model ----
(***************************************************************************)
(* A model of src/app.py: the /get_movie_facts handler of the movie trivia *)
(* backend, with its text-resolution and fact-extraction pipeline.         *)
(*                                                                         *)
(* Strings are sequences of characters (one-character strings; the two     *)
(* non-ASCII marker glyphs are written "EN_DASH" and "BULLET").  Optional  *)
(* values (Python None versus a string) are records built by None / Str.   *)
(***************************************************************************)
EXTENDS Integers, Sequences, FiniteSets, TLC

VARIABLES
    TMDB_API_KEY,       \* app.py:16   TRUE iff the environment variable is set
    anthropic_client,   \* app.py:20   TRUE iff the client object was created
    pc,                 \* where the handler of the current request stands
    query_arg,          \* app.py:100  request.args' movie_id (None: not given)
    movie_id,           \* app.py:100  the trimmed query parameter
    tmdb_calls,         \* requests.get calls made for the current request
    anthropic_calls,    \* messages.create calls made for the current request
    tmdb_resp,          \* app.py:111  what the metadata call gave back
    movie,              \* app.py:117-119  title, year, poster
    response,           \* app.py:143  what the completion call gave back
    raw_text,           \* app.py:174  the resolved, trimmed completion text
    used_fallback,      \* app.py:186  TRUE iff the sentence split was run
    reply               \* the HTTP response of the handler

vars == << TMDB_API_KEY, anthropic_client, pc, query_arg, movie_id, tmdb_calls,
           anthropic_calls, tmdb_resp, movie, response, raw_text,
           used_fallback, reply >>

(***************************************************************************)
(* Bounds of the model.                                                    *)
(***************************************************************************)
MaxTextLen == 4     \* completion texts enumerated character by character
MaxLines == 7       \* lines of a completion text built line by line

(***************************************************************************)
(* Program constants.                                                      *)
(***************************************************************************)
MaxFacts == 6       \* facts[:6]
FallbackCap == 3    \* if len(facts) >= 3: break
YearLen == 4        \* release_date[:4]

(***************************************************************************)
(* Optional values and Python truthiness.                                  *)
(***************************************************************************)
None == [some |-> FALSE, s |-> << >>]
Str(s) == [some |-> TRUE, s |-> s]
Truthy(v) == v.some /\ v.s # << >>
\* a or b
Or(a, b) == IF Truthy(a) THEN a ELSE b

(***************************************************************************)
(* Character classes of Python's re and str.strip.                         *)
(***************************************************************************)
Whitespace == {" ", "\t", "\r", "\n"}
Digits == {"0", "1", "2", "3", "4", "5", "6", "7", "8", "9"}
MarkerClosers == {".", ")"}
Glyphs == {"-", "EN_DASH", "BULLET", "*"}
Terminals == {".", "?", "!"}

RECURSIVE LStrip(_)
LStrip(s) ==
    IF s # << >> /\ Head(s) \in Whitespace THEN LStrip(Tail(s)) ELSE s

RECURSIVE RStrip(_)
RStrip(s) ==
    IF s # << >> /\ s[Len(s)] \in Whitespace
    THEN RStrip(SubSeq(s, 1, Len(s) - 1))
    ELSE s

\* str.strip()
Strip(s) == RStrip(LStrip(s))

RECURSIVE SkipDigits(_)
SkipDigits(s) ==
    IF s # << >> /\ Head(s) \in Digits THEN SkipDigits(Tail(s)) ELSE s

\* Faulty variant of CleanFactLine: the numbered alternative of the pattern is
\* lost, only glyph markers are removed.
CleanFactLineGlyphOnly(line) ==
    LET t == LStrip(line)
    IN  IF t # << >> /\ Head(t) \in Glyphs THEN Strip(Tail(t)) ELSE Strip(line)

\* Faulty variant of CleanFactLine: the marker is removed, but neither the
\* whitespace after it nor the surrounding whitespace.
CleanFactLineKeepSpace(line) ==
    LET t == LStrip(line)
        d == SkipDigits(t)
    IN  IF d # t /\ d # << >> /\ Head(d) \in MarkerClosers
        THEN Tail(d)
        ELSE IF t # << >> /\ Head(t) \in Glyphs THEN Tail(t) ELSE line

\* re.sub(r'^\s*(?:\d+[\.\)]\s*|[-EN_DASH BULLET \*]\s*)', '', line).strip()
CleanFactLine(line) ==
    LET t == LStrip(line)
        d == SkipDigits(t)
    IN  IF d # t /\ d # << >> /\ Head(d) \in MarkerClosers
        THEN Strip(Tail(d))
        ELSE IF t # << >> /\ Head(t) \in Glyphs
             THEN Strip(Tail(t))
             ELSE Strip(line)

\* re.split(r'\r?\n', s), scanning rest with the current piece in cur
RECURSIVE SplitLinesFrom(_, _)
SplitLinesFrom(rest, cur) ==
    IF rest = << >> THEN << cur >>
    ELSE IF Head(rest) = "\n"
         THEN << cur >> \o SplitLinesFrom(Tail(rest), << >>)
    ELSE IF Head(rest) = "\r" /\ Len(rest) >= 2 /\ rest[2] = "\n"
         THEN << cur >> \o SplitLinesFrom(Tail(Tail(rest)), << >>)
    ELSE SplitLinesFrom(Tail(rest), Append(cur, Head(rest)))

SplitLines(s) == SplitLinesFrom(s, << >>)

\* re.split(r'(?<=[\.\?\!])\s+', s)
RECURSIVE SplitSentencesFrom(_, _)
SplitSentencesFrom(rest, cur) ==
    IF rest = << >> THEN << cur >>
    ELSE IF Head(rest) \in Whitespace /\ cur # << >> /\ cur[Len(cur)] \in Terminals
         THEN << cur >> \o SplitSentencesFrom(LStrip(rest), << >>)
    ELSE SplitSentencesFrom(Tail(rest), Append(cur, Head(rest)))

SplitSentences(s) == SplitSentencesFrom(s, << >>)

\* [p.strip() for p in pieces if p.strip()]
RECURSIVE StripNonEmpty(_)
StripNonEmpty(pieces) ==
    IF pieces = << >> THEN << >>
    ELSE LET p == Strip(Head(pieces))
         IN  (IF p # << >> THEN << p >> ELSE << >>) \o StripNonEmpty(Tail(pieces))

\* for ln in lines: cleaned = _clean_fact_line(ln); if cleaned: facts.append
RECURSIVE CleanLines(_)
CleanLines(lines) ==
    IF lines = << >> THEN << >>
    ELSE LET cleaned == CleanFactLine(Head(lines))
         IN  (IF cleaned # << >> THEN << cleaned >> ELSE << >>)
             \o CleanLines(Tail(lines))

\* the loop over sentences, which breaks once FallbackCap facts are held
RECURSIVE CleanSentences(_, _)
CleanSentences(sentences, facts) ==
    IF sentences = << >> THEN facts
    ELSE LET cleaned == CleanFactLine(Head(sentences))
             more == IF cleaned # << >> THEN Append(facts, cleaned) ELSE facts
         IN  IF Len(more) >= FallbackCap THEN more
             ELSE CleanSentences(Tail(sentences), more)

\* step 4: the facts of the line path
LineFacts(text) == CleanLines(StripNonEmpty(SplitLines(text)))

\* step 5: the facts of the sentence fallback
SentenceFacts(text) == CleanSentences(StripNonEmpty(SplitSentences(text)), << >>)

\* if not facts: (the fallback is run)
NeedsFallback(facts) == facts = << >>

\* the facts before the trim to six
CandidateFacts(text) ==
    LET facts == LineFacts(text)
    IN  IF NeedsFallback(facts) THEN SentenceFacts(text) ELSE facts

\* Faulty variant of TrimFacts: the slice keeps one entry too many.
TrimFactsOffByOne(facts) ==
    SubSeq(facts, 1, IF Len(facts) < MaxFacts + 1 THEN Len(facts) ELSE MaxFacts + 1)

\* facts[:6]
TrimFacts(facts) ==
    SubSeq(facts, 1, IF Len(facts) < MaxFacts THEN Len(facts) ELSE MaxFacts)

(***************************************************************************)
(* Resolution of the completion payload to a text, app.py:149-174.         *)
(* A payload is an SDK object (fields are attributes) or a dict (fields    *)
(* are keys).  content.kind is "absent", "list" or "other" (a value that   *)
(* is no list or tuple); a block is "object", "dict" or "plain" (a value   *)
(* with neither a text attribute nor dict keys).                           *)
(***************************************************************************)
Block(kind, text) == [kind |-> kind, text |-> text]
NoContent == [kind |-> "absent", blocks |-> << >>]
OtherContent == [kind |-> "other", blocks |-> << >>]
ListContent(blocks) == [kind |-> "list", blocks |-> blocks]
Payload(is_dict, content, text, completion, repr) ==
    [is_dict |-> is_dict, content |-> content, text |-> text,
     completion |-> completion, repr |-> repr]

\* getattr(response, name, None): a dict has no such attribute
GetAttr(resp, field) == IF resp.is_dict THEN None ELSE field

\* 1) response.content[0].text
ResolveFirstBlock(resp) ==
    LET cont == IF resp.is_dict THEN NoContent ELSE resp.content
    IN  IF cont.kind = "list" /\ cont.blocks # << >>
        THEN LET first == cont.blocks[1]
             IN  Or(IF first.kind = "object" THEN first.text ELSE None,
                    IF first.kind = "dict" THEN first.text ELSE None)
        ELSE None

\* 2) response["content"][0].get("text"); a block without .get raises, which
\*    the inner except turns into None
ResolveDictContent(resp) ==
    IF resp.is_dict /\ resp.content.kind = "list" /\ resp.content.blocks # << >>
    THEN LET first == resp.content.blocks[1]
         IN  IF first.kind = "dict" THEN first.text ELSE None
    ELSE None

\* 3) getattr(response, "text") or getattr(response, "completion") or str(response)
ResolveFallback(resp) ==
    Or(GetAttr(resp, resp.text), Or(GetAttr(resp, resp.completion), Str(resp.repr)))

\* the text before the trim of line 174
ResolveText(resp) ==
    LET one == ResolveFirstBlock(resp)
        two == IF Truthy(one) THEN one ELSE ResolveDictContent(resp)
        three == IF Truthy(two) THEN two ELSE ResolveFallback(resp)
    IN  Or(three, Str(<< >>)).s

(***************************************************************************)
(* Movie details, app.py:116-119.                                          *)
(***************************************************************************)
UnknownTitle == << "Unknown Title" >>
PosterBase == << "https://image.tmdb.org/t/p/w500" >>

MovieTitle(json) == Or(json.title, Or(json.original_title, Str(UnknownTitle))).s

MovieYear(json) ==
    IF Truthy(json.release_date)
    THEN LET d == Or(json.release_date, Str(<< >>)).s
         IN  SubSeq(d, 1, IF Len(d) < YearLen THEN Len(d) ELSE YearLen)
    ELSE << >>

MoviePoster(json) ==
    IF Truthy(json.poster_path) THEN Str(PosterBase \o json.poster_path.s) ELSE None

MovieOf(json) ==
    [title |-> MovieTitle(json), year |-> MovieYear(json), poster |-> MoviePoster(json)]

NoMovie == [title |-> << >>, year |-> << >>, poster |-> None]

(***************************************************************************)
(* The responses of the handler.                                           *)
(***************************************************************************)
ErrorReply(status, message) ==
    [status |-> status, error |-> message, title |-> << >>, year |-> << >>,
     poster |-> None, facts |-> << >>]

FactsReply(m, facts) ==
    [status |-> 200, error |-> "", title |-> m.title, year |-> m.year,
     poster |-> m.poster, facts |-> facts]

NoReply == ErrorReply(0, "")

\* f"Anthropic not configured on server. Movie: {title} ({year})."
Placeholder(m) ==
    << "Anthropic not configured on server. Movie: " >> \o m.title
        \o << " (" >> \o m.year \o << ")." >>

\* Faulty variant of PlaceholderReply: a missing client is reported as an error.
PlaceholderReplyAsError(m) == ErrorReply(500, "Anthropic not configured")

\* app.py:127-132
PlaceholderReply(m) == FactsReply(m, << Placeholder(m) >>)

\* Faulty variant of ExtractionReply: the empty list is not checked for.
ExtractionReplyUnchecked(m, facts) == FactsReply(m, TrimFacts(facts))

\* app.py:196-203
ExtractionReply(m, facts) ==
    IF facts = << >>
    THEN ErrorReply(500, "No facts could be generated")
    ELSE FactsReply(m, TrimFacts(facts))

\* Faulty variant of MovieIdArg: the parameter is not trimmed.
MovieIdArgUntrimmed(arg) == Or(arg, Str(<< >>)).s

\* request.args.get("movie_id", "").strip()
MovieIdArg(arg) == Strip(Or(arg, Str(<< >>)).s)

\* Faulty variant of TmdbFailed: the status code is not looked at.
TmdbFailedOnlyRaised(resp) == resp.raised

\* if tmdb_resp.status_code != 200, or the call or resp.json() raised
TmdbFailed(resp) == resp.raised \/ resp.status # 200

(***************************************************************************)
(* The inputs the environment can supply.                                  *)
(***************************************************************************)
Alphabet == {"a", "1", ".", "-", " ", "\n", "\r"}

\* every string over Alphabet of length at most n
RECURSIVE StringsUpTo(_)
StringsUpTo(n) ==
    IF n = 0 THEN {<< >>}
    ELSE LET shorter == StringsUpTo(n - 1)
         IN  shorter \cup {Append(s, c) : s \in shorter, c \in Alphabet}

CharTexts == StringsUpTo(MaxTextLen)

\* what follows the "<i>. " prefix on a numbered line
Bodies == {<< "a" >>, << " ", "a", " " >>, << >>}
LineBreaks == {<< "\n" >>, << "\r", "\n" >>}
DigitOf == << "1", "2", "3", "4", "5", "6", "7", "8", "9" >>

\* every sequence of exactly n bodies
RECURSIVE BodyLists(_)
BodyLists(n) ==
    IF n = 0 THEN {<< >>}
    ELSE {Append(bs, b) : bs \in BodyLists(n - 1), b \in Bodies}

\* line i is "<i>. " followed by bodies[i]; the lines are joined by brk
RECURSIVE NumberedFrom(_, _, _)
NumberedFrom(bodies, i, brk) ==
    IF i > Len(bodies) THEN << >>
    ELSE (IF i = 1 THEN << >> ELSE brk)
         \o << DigitOf[i], ".", " " >> \o bodies[i]
         \o NumberedFrom(bodies, i + 1, brk)

NumberedTexts ==
    {NumberedFrom(bs, 1, brk) :
        bs \in UNION {BodyLists(n) : n \in 1..MaxLines}, brk \in LineBreaks}

\* texts with the marker glyphs and terminals that Alphabet leaves out
SampleTexts ==
    {<< "*", " ", "a" >>, << "BULLET", "a" >>, << "EN_DASH", " ", "a" >>,
     << "1", "2", ")", " ", "a" >>, << "a", "?", " ", "a", "!", "\t", "a" >>,
     << "1", ".", " ", "a", ".", "\n", "2", ".", " ", "a", ".", "\n", "-", " ", "a" >>,
     << "1", ")", "\n", "-" >>, << "a", ".", " ", "a", ".", " ", "a", ".", " ", "a", "." >>}

Texts == CharTexts \cup NumberedTexts \cup SampleTexts

\* the SDK's Message object: one text block
Message(text) ==
    Payload(FALSE, ListContent(<< Block("object", Str(text)) >>), None, None,
            << "Message(...)" >>)

BlockTexts == {None, Str(<< >>), Str(<< "b" >>)}
ShapeContents ==
    {NoContent, OtherContent, ListContent(<< >>)}
    \cup {ListContent(<< Block(k, t) >>) :
            k \in {"object", "dict", "plain"}, t \in BlockTexts}
    \cup {ListContent(<< Block(k, t), Block(k, Str(<< "z" >>)) >>) :
            k \in {"object", "dict"}, t \in BlockTexts}

\* payloads of other shapes (older SDKs, plain dicts)
Shapes ==
    {Payload(d, c, t, o, << "r" >>) :
        d \in BOOLEAN, c \in ShapeContents,
        t \in {None, Str(<< "t" >>)}, o \in {None, Str(<< "c" >>)}}

Payloads == {Message(t) : t \in Texts} \cup Shapes

NoPayload == Payload(FALSE, NoContent, None, None, << >>)

MovieIdArgs ==
    {None, Str(<< >>), Str(<< " " >>), Str(<< " ", "5", "5", "0" >>)}

Json(title, original_title, release_date, poster_path) ==
    [title |-> title, original_title |-> original_title,
     release_date |-> release_date, poster_path |-> poster_path]

MovieJsons ==
    {Json(Str(<< "F", "C" >>), Str(<< "F", "C" >>),
          Str(<< "1", "9", "9", "9", "-", "1", "0", "-", "1", "5" >>),
          Str(<< "/", "a", ".", "j", "p", "g" >>)),
     Json(Str(<< >>), Str(<< "O" >>), Str(<< "1", "9", "9" >>), None),
     Json(None, None, Str(<< >>), Str(<< >>))}

NoJson == Json(None, None, None, None)

TmdbResponse(raised, status, json) ==
    [raised |-> raised, status |-> status, json |-> json]

NoTmdbResponse == TmdbResponse(FALSE, 0, NoJson)

TmdbResponses ==
    {TmdbResponse(TRUE, 0, NoJson), TmdbResponse(FALSE, 404, NoJson),
     TmdbResponse(FALSE, 500, NoJson)}
    \cup {TmdbResponse(FALSE, 200, j) : j \in MovieJsons}

(***************************************************************************)
(* The handler of /get_movie_facts, app.py:93-206, cut at its two blocking *)
(* calls: Request runs to the metadata call, TmdbReply from its return to  *)
(* the completion call, AnthropicReply (or AnthropicRaises) to the end.    *)
(***************************************************************************)
Init ==
    /\ TMDB_API_KEY \in BOOLEAN
    /\ anthropic_client \in BOOLEAN
    /\ pc = "idle"
    /\ query_arg = None
    /\ movie_id = << >>
    /\ tmdb_calls = 0
    /\ anthropic_calls = 0
    /\ tmdb_resp = NoTmdbResponse
    /\ movie = NoMovie
    /\ response = NoPayload
    /\ raw_text = << >>
    /\ used_fallback = FALSE
    /\ reply = NoReply

\* app.py:100-111: a request arrives (the previous one, if any, was answered)
Request(arg) ==
    /\ pc \in {"idle", "done"}
    /\ query_arg' = arg
    /\ movie_id' = MovieIdArg(arg)
    /\ tmdb_resp' = NoTmdbResponse
    /\ movie' = NoMovie
    /\ response' = NoPayload
    /\ raw_text' = << >>
    /\ used_fallback' = FALSE
    /\ anthropic_calls' = 0
    /\ IF movie_id' = << >>
       THEN /\ reply' = ErrorReply(400, "Missing movie_id")
            /\ tmdb_calls' = 0
            /\ pc' = "done"
       ELSE IF ~TMDB_API_KEY
       THEN /\ reply' = ErrorReply(500, "Server not configured (TMDB missing)")
            /\ tmdb_calls' = 0
            /\ pc' = "done"
       ELSE /\ reply' = NoReply
            /\ tmdb_calls' = 1
            /\ pc' = "tmdb"
    /\ UNCHANGED << TMDB_API_KEY, anthropic_client >>

\* app.py:112-147: what the handler does with the metadata response
TmdbAnswer(resp) ==
    /\ tmdb_resp' = resp
    /\ IF TmdbFailed(resp)
       THEN /\ reply' = ErrorReply(500, "Failed to fetch movie details")
            /\ movie' = movie
            /\ anthropic_calls' = anthropic_calls
            /\ pc' = "done"
       ELSE /\ movie' = MovieOf(resp.json)
            /\ IF ~anthropic_client
               THEN /\ reply' = PlaceholderReply(movie')
                    /\ anthropic_calls' = anthropic_calls
                    /\ pc' = "done"
               ELSE /\ reply' = reply
                    /\ anthropic_calls' = anthropic_calls + 1
                    /\ pc' = "anthropic"

\* app.py:111-147: the metadata call returns (or raises)
TmdbReply ==
    /\ pc = "tmdb"
    /\ \E resp \in TmdbResponses : TmdbAnswer(resp)
    /\ UNCHANGED << TMDB_API_KEY, anthropic_client, query_arg, movie_id, tmdb_calls,
                    response, raw_text, used_fallback >>

\* app.py:143-203: the completion call returns a payload
AnthropicReply ==
    /\ pc = "anthropic"
    /\ \E resp \in Payloads :
        LET text == Strip(ResolveText(resp))
        IN  /\ response' = resp
            /\ raw_text' = text
            /\ used_fallback' = NeedsFallback(LineFacts(text))
            /\ reply' = ExtractionReply(movie, CandidateFacts(text))
    /\ pc' = "done"
    /\ UNCHANGED << TMDB_API_KEY, anthropic_client, query_arg, movie_id, tmdb_calls,
                    anthropic_calls, tmdb_resp, movie >>

\* app.py:204-206: the completion call raises
AnthropicRaises ==
    /\ pc = "anthropic"
    /\ reply' = ErrorReply(500, "Problem generating trivia")
    /\ pc' = "done"
    /\ UNCHANGED << TMDB_API_KEY, anthropic_client, query_arg, movie_id, tmdb_calls,
                    anthropic_calls, tmdb_resp, movie, response, raw_text,
                    used_fallback >>

Next ==
    \/ \E arg \in MovieIdArgs : Request(arg)
    \/ TmdbReply
    \/ AnthropicReply
    \/ AnthropicRaises

Spec == Init /\ [][Next]_vars

(***************************************************************************)
(* Vocabulary of the properties.                                           *)
(***************************************************************************)
\* the handler has answered the current request
Answered == pc = "done"

\* the completion call returned and the extraction ran on its payload
ExtractionRan == pc = "done" /\ response # NoPayload

\* the payload is the SDK's Message, and this is the text of its block
IsMessage == response.repr = << "Message(...)" >>
CompletionText == response.content.blocks[1].text.s

\* the positions of the line feeds of t from position i on, in order
RECURSIVE BreaksFrom(_, _)
BreaksFrom(t, i) ==
    IF i > Len(t) THEN << >>
    ELSE (IF t[i] = "\n" THEN << i >> ELSE << >>) \o BreaksFrom(t, i + 1)

\* the lines of a text, read off its line breaks ("\n", or "\r\n")
LinesOf(t) ==
    LET b == BreaksFrom(t, 1)
        n == Len(b) + 1
    IN  [k \in 1..n |->
            LET start == IF k = 1 THEN 1 ELSE b[k - 1] + 1
                e == IF k = n THEN Len(t) ELSE b[k] - 1
                end == IF k < n /\ e >= start /\ t[e] = "\r" THEN e - 1 ELSE e
            IN  SubSeq(t, start, end)]

\* the lines are N lines (N at most 9), line i prefixed with "<i>. "
AreNumbered(lines) ==
    /\ Len(lines) <= Len(DigitOf)
    /\ \A k \in 1..Len(lines) :
        /\ Len(lines[k]) >= 3
        /\ lines[k][1] = DigitOf[k] /\ lines[k][2] = "." /\ lines[k][3] = " "

IsNumbered(t) == AreNumbered(LinesOf(t))

\* the lines of a numbered text, each with its "<k>. " prefix removed
BodiesOf(t) ==
    LET lines == LinesOf(t)
    IN  [k \in 1..Len(lines) |-> SubSeq(lines[k], 4, Len(lines[k]))]

TrimmedBodiesOf(t) ==
    LET bodies == BodiesOf(t) IN [k \in 1..Len(bodies) |-> Strip(bodies[k])]

NonBlank(b) == b # << >>

FirstSix(list) == SubSeq(list, 1, IF Len(list) < 6 THEN Len(list) ELSE 6)

\* a fact begins with digits followed by "." or ")", or with a marker glyph
StartsWithMarker(f) ==
    /\ f # << >>
    /\ \/ f[1] \in Glyphs
       \/ \E n \in 1..(Len(f) - 1) :
            /\ \A i \in 1..n : f[i] \in Digits
            /\ f[n + 1] \in MarkerClosers

NoMarkers(facts) == \A k \in 1..Len(facts) : ~StartsWithMarker(facts[k])

\* pure prose: no line break and no enumeration marker anywhere
IsProse(t) ==
    \A i \in 1..Len(t) :
        /\ t[i] \notin {"\n", "\r"}
        /\ t[i] \notin Glyphs
        /\ ~(t[i] \in Digits /\ i < Len(t) /\ t[i + 1] \in MarkerClosers)

\* some clause of the text, with content of its own, ends in '.', '?' or '!'
HasTerminalClause(t) ==
    \E i \in 2..Len(t) :
        t[i] \in Terminals /\ t[i - 1] \notin (Whitespace \cup Terminals)

\* facts joined one per line
RECURSIVE JoinLines(_)
JoinLines(facts) ==
    IF facts = << >> THEN << >>
    ELSE IF Len(facts) = 1 THEN facts[1]
    ELSE facts[1] \o << "\n" >> \o JoinLines(Tail(facts))

\* the extraction of app.py:174-201 applied to a text
Extract(t) == TrimFacts(CandidateFacts(Strip(t)))

MetadataSucceeded == tmdb_calls = 1 /\ ~tmdb_resp.raised /\ tmdb_resp.status = 200
MetadataFailed ==
    \/ tmdb_calls = 1 /\ (tmdb_resp.raised \/ tmdb_resp.status # 200)
    \/ tmdb_calls = 0 /\ ~TMDB_API_KEY /\ movie_id # << >>

(***************************************************************************)
(* C1.  As stated: for a completion text of N lines, line i prefixed with  *)
(* "<i>. ", the extraction returns exactly min(N, 6) facts, the k-th being *)
(* the k-th line with its prefix removed.                                  *)
(***************************************************************************)
C1_NumberedLinesVerbatim ==
    (ExtractionRan /\ IsMessage /\ IsNumbered(CompletionText))
        => reply.facts = FirstSix(BodiesOf(CompletionText))

(***************************************************************************)
(* C1, amended: for such a text the extraction returns one fact for each   *)
(* line whose remainder after the prefix is not blank, at most 6 of them,  *)
(* in the original order; each fact is that remainder trimmed of its       *)
(* surrounding whitespace.  With no such line the answer is the 500.       *)
(***************************************************************************)
C1_NumberedLinesTrimmed ==
    (ExtractionRan /\ IsMessage /\ IsNumbered(CompletionText))
        => LET kept == SelectSeq(TrimmedBodiesOf(CompletionText), NonBlank)
           IN  /\ reply.facts = FirstSix(kept)
               /\ reply.status = IF kept = << >> THEN 500 ELSE 200

\* a numbered text of seven lines, one with a blank remainder and one with
\* an untrimmed remainder, has been extracted
C1_Witness ==
    /\ ExtractionRan /\ IsMessage /\ IsNumbered(CompletionText)
    /\ LET bodies == BodiesOf(CompletionText)
       IN  /\ Len(bodies) = 7
           /\ \E k \in 1..7 : bodies[k] = << >>
           /\ \E k \in 1..7 : bodies[k] = << " ", "a", " " >>
    /\ Len(reply.facts) = 5

(***************************************************************************)
(* C2.  As stated: for pure prose (no line break, no enumeration marker)   *)
(* with a terminal-punctuated clause, the handler takes the sentence       *)
(* fallback and returns at least one fact.                                 *)
(***************************************************************************)
C2_ProseTakesFallback ==
    (ExtractionRan /\ IsMessage /\ IsProse(CompletionText)
        /\ HasTerminalClause(CompletionText))
        => used_fallback /\ Len(reply.facts) >= 1

(***************************************************************************)
(* C3.  As stated: every fact of a response is non-empty, has no           *)
(* surrounding whitespace and does not begin with an enumeration marker.   *)
(***************************************************************************)
C3_FactsAreClean ==
    ExtractionRan =>
        \A k \in 1..Len(reply.facts) :
            /\ reply.facts[k] # << >>
            /\ Strip(reply.facts[k]) = reply.facts[k]
            /\ ~StartsWithMarker(reply.facts[k])

(***************************************************************************)
(* C4.  No response carries more than 6 facts; a text that yields more     *)
(* than 6 candidate facts is answered with exactly the first 6, in order.  *)
(***************************************************************************)
C4_TrimToSix ==
    /\ Len(reply.facts) <= 6
    /\ (ExtractionRan /\ Len(CandidateFacts(raw_text)) > 6)
        => /\ reply.status = 200
           /\ Len(reply.facts) = 6
           /\ \A k \in 1..6 : reply.facts[k] = CandidateFacts(raw_text)[k]

C4_Witness == ExtractionRan /\ Len(CandidateFacts(raw_text)) > 6

(***************************************************************************)
(* C5.  Idempotence: when no fact of the response starts with an           *)
(* enumeration marker, extracting again from the facts joined one per      *)
(* line gives the same list.                                               *)
(***************************************************************************)
C5_Idempotent ==
    (ExtractionRan /\ NoMarkers(reply.facts))
        => Extract(JoinLines(reply.facts)) = reply.facts

C5_Witness ==
    /\ ExtractionRan /\ NoMarkers(reply.facts)
    /\ Len(reply.facts) >= 2
    /\ raw_text # JoinLines(reply.facts)

(***************************************************************************)
(* C6.  When the line path and the sentence fallback both yield nothing    *)
(* the answer is 500 "No facts could be generated"; no 200 answer carries  *)
(* an empty facts list.                                                    *)
(***************************************************************************)
C6_EmptyIsAnError ==
    /\ reply.status = 200 => reply.facts # << >>
    /\ (ExtractionRan /\ LineFacts(raw_text) = << >> /\ SentenceFacts(raw_text) = << >>)
        => reply.status = 500 /\ reply.error = "No facts could be generated"

C6_Witness ==
    /\ ExtractionRan /\ raw_text # << >>
    /\ LineFacts(raw_text) = << >> /\ SentenceFacts(raw_text) = << >>

(***************************************************************************)
(* C7.  Per request the metadata provider is called at most once and the   *)
(* completion provider at most once, the latter only after the metadata    *)
(* call succeeded; a failed metadata fetch (exception, non-200, key        *)
(* absent) is answered 500 without any completion call.                    *)
(***************************************************************************)
C7_SequentialNoRetry ==
    /\ tmdb_calls <= 1
    /\ anthropic_calls <= 1
    /\ anthropic_calls = 1 => MetadataSucceeded
    /\ pc = "anthropic" => anthropic_calls = 1
    /\ (Answered /\ MetadataFailed) => reply.status = 500 /\ anthropic_calls = 0

C7_Witness ==
    /\ Answered /\ anthropic_client
    /\ tmdb_calls = 1 /\ ~tmdb_resp.raised /\ tmdb_resp.status = 404

(***************************************************************************)
(* C8.  Metadata fetched and no completion client: the answer is 200 with  *)
(* the movie's title, year and poster and exactly one placeholder fact     *)
(* naming the title and the year; the completion provider is not called.   *)
(***************************************************************************)
C8_PlaceholderIsSuccess ==
    (Answered /\ MetadataSucceeded /\ ~anthropic_client)
        => /\ reply.status = 200
           /\ reply.error = ""
           /\ reply.title = MovieTitle(tmdb_resp.json)
           /\ reply.year = MovieYear(tmdb_resp.json)
           /\ reply.poster = MoviePoster(tmdb_resp.json)
           /\ reply.facts =
                << << "Anthropic not configured on server. Movie: " >>
                   \o reply.title \o << " (" >> \o reply.year \o << ")." >> >>
           /\ anthropic_calls = 0

C8_Witness ==
    /\ Answered /\ MetadataSucceeded /\ ~anthropic_client
    /\ reply.title = << "O" >> /\ reply.year = << "1", "9", "9" >>

(***************************************************************************)
(* C9.  As stated: a payload with a non-empty sequence of content blocks   *)
(* resolves to the text field of its first block; only without such a     *)
(* sequence is a top-level text or completion field used; only when        *)
(* neither exists is the payload stringified.  (raw_text is the resolved   *)
(* text trimmed, so the texts are compared trimmed.)                       *)
(***************************************************************************)
C9_FixedPriority ==
    ExtractionRan =>
        LET blocks == response.content.blocks
            hasBlocks == response.content.kind = "list" /\ blocks # << >>
        IN  /\ (hasBlocks /\ blocks[1].kind # "plain" /\ blocks[1].text.some)
                => raw_text = Strip(blocks[1].text.s)
            /\ (~hasBlocks /\ response.text.some)
                => raw_text = Strip(response.text.s)
            /\ (~hasBlocks /\ ~response.text.some /\ response.completion.some)
                => raw_text = Strip(response.completion.s)
            /\ (~hasBlocks /\ ~response.text.some /\ ~response.completion.some)
                => raw_text = Strip(response.repr)

(***************************************************************************)
(* C10.  A request whose movie_id is missing, or empty once trimmed, is    *)
(* answered 400 "Missing movie_id" whatever the configuration, and no      *)
(* provider is called.                                                     *)
(***************************************************************************)
C10_MissingMovieId ==
    (Answered /\ (~query_arg.some \/ Strip(query_arg.s) = << >>))
        => /\ reply.status = 400
           /\ reply.error = "Missing movie_id"
           /\ tmdb_calls = 0
           /\ anthropic_calls = 0

C10_Witness ==
    /\ Answered /\ query_arg = Str(<< " " >>)
    /\ ~TMDB_API_KEY /\ ~anthropic_client

====
